---- MODULE Spec2Model ----
(***************************************************************************)
(* Model of alg::s_list<T> (include/data_structures/s_list.hpp): a singly  *)
(* linked list of shared_ptr-owned nodes with a data-less first node, a    *)
(* pointer to the last node and an element counter.                        *)
(*                                                                         *)
(* The heap is a finite set of addresses.  Every node field is a function  *)
(* over addresses; a node is allocated while some shared_ptr refers to it  *)
(* (m_first, m_last, a next-link of an allocated node, or the pointer the  *)
(* caller got from find() or keeps inside an iterator).                    *)
(***************************************************************************)
EXTENDS Integers, Sequences, FiniteSets, TLC

\* ---- bounds of the model ------------------------------------------------
MaxNodes == 3          \* addresses available besides the first node's
MaxVal == 2            \* element values are 1..MaxVal

Addr == 0 .. MaxNodes
Values == 1 .. MaxVal
Fuel == MaxNodes + 2   \* more steps than any acyclic chain can take

\* ---- values that are not nodes or elements ------------------------------
nullptr == 0 - 1       \* the empty shared_ptr
Fault == 0 - 2         \* a scan that dereferenced nullptr or did not end
Uninit == 0            \* m_data of a node built by node(): never assigned

VARIABLES
    m_first,   \* shared_ptr<node>: the data-less first node
    m_last,    \* shared_ptr<node>: the last node, nullptr when empty
    m_size,    \* size_t: count of elements
    m_data,    \* node::m_data, by address
    m_next,    \* node::m_next, by address
    heap,      \* addresses of the nodes that exist
    held,      \* the shared_ptr the caller keeps: find() result or iterator
    call,      \* the last call: name, arguments, exception, return value
    pre,       \* what the list looked like when the last call started
    run        \* the current run of consecutive push calls or iterator steps

vars == <<m_first, m_last, m_size, m_data, m_next, heap, held, call, pre, run>>

\* ---- exceptions ---------------------------------------------------------
\* The three failures are told apart by the throw statement that raises them.
NoError == "none"
EmptyContainer == "EmptyContainer"        \* logic_error, "... list is empty"
ValueNotFound == "ValueNotFound"          \* invalid_argument, "... not found"
InvalidNodeAccess == "InvalidNodeAccess"  \* logic_error of node::get / next
Crash == "crash"                          \* the process ended on a bad read

\* node::get and node::next called through a null pointer are undefined:
\* a build that keeps the test  this == nullptr  throws, a build that drops
\* it reads a field of the node at address 0.
NullCallOutcomes == {InvalidNodeAccess, Crash}

ExceptionType(e) ==
    IF e = ValueNotFound THEN "std::invalid_argument"
    ELSE IF e = NoError THEN "none" ELSE "std::logic_error"

\* ---- observers ----------------------------------------------------------
empty == (m_last = nullptr)

size == m_size

\* The nodes met by following next-links from p until nullptr, at most k.
RECURSIVE Walk(_, _, _)
Walk(nx, p, k) ==
    IF p = nullptr \/ k = 0 THEN <<>>
    ELSE <<p>> \o Walk(nx, nx[p], k - 1)

begin == m_next[m_first]

\* Nodes and values visited by  for (i = begin(); i != nullptr; ++i).
ChainNodes == Walk(m_next, begin, Fuel)

Traversal ==
    LET c == ChainNodes
    IN  [i \in 1 .. Len(c) |-> m_data[c[i]]]

\* ---- shared_ptr ownership -----------------------------------------------
\* Everything some shared_ptr still refers to, directly or through m_next.
RECURSIVE Owned(_, _)
Owned(S, nx) ==
    LET T == (S \cup {nx[n] : n \in S}) \ {nullptr}
    IN  IF T = S THEN S ELSE Owned(T, nx)

\* The state a call leaves: the fields it assigned, and every node whose
\* last shared_ptr went away destroyed.
Store(d, nx, la, sz, h) ==
    LET keep == Owned({m_first, la, h} \ {nullptr}, nx)
    IN  /\ heap' = keep
        /\ m_data' = [a \in Addr |-> IF a \in keep THEN d[a] ELSE Uninit]
        /\ m_next' = [a \in Addr |-> IF a \in keep THEN nx[a] ELSE nullptr]
        /\ m_last' = la
        /\ m_size' = sz
        /\ held' = h
        /\ m_first' = m_first

\* Where std::make_shared<node> puts a new node: the lowest free address.
\* Which address it is cannot be observed through the list, and a freed
\* address is handed out again.  Empty when the bound on nodes is reached.
Fresh ==
    IF Addr \ heap = {} THEN {}
    ELSE {CHOOSE n \in Addr \ heap : \A o \in Addr \ heap : n <= o}

Snapshot ==
    LET c == ChainNodes
    IN  [trav |-> [i \in 1 .. Len(c) |-> m_data[c[i]]], nodes |-> c,
         size |-> m_size, last |-> m_last, first |-> m_first]

Called(op, x, y, raised, ret) ==
    /\ call.raised # Crash
    /\ call' = [op |-> op, x |-> x, y |-> y, raised |-> raised, ret |-> ret]
    /\ pre' = Snapshot

NoRun == [op |-> "none", base |-> <<>>, baseSize |-> 0, args |-> <<>>]

\* Consecutive calls of the same push operation extend the run.
Extend(op, item) ==
    IF run.op = op
    THEN [run EXCEPT !.args = Append(@, item)]
    ELSE [op |-> op, base |-> Traversal, baseSize |-> m_size, args |-> <<item>>]

\* ---- s_list() -----------------------------------------------------------
Init ==
    /\ m_first = 0
    /\ m_last = nullptr
    /\ m_size = 0
    /\ m_data = [a \in Addr |-> Uninit]
    /\ m_next = [a \in Addr |-> nullptr]
    /\ heap = {0}
    /\ held = nullptr
    /\ call = [op |-> "s_list", x |-> 0, y |-> 0, raised |-> NoError, ret |-> nullptr]
    /\ pre = [trav |-> <<>>, nodes |-> <<>>, size |-> 0, last |-> nullptr, first |-> 0]
    /\ run = NoRun

\* ---- the scan shared by find, erase and insert_after ---------------------
\* Bug variant: the loop stops one node early, at t->next() == m_last.
RECURSIVE ScanShort(_, _, _)
ScanShort(t, item, k) ==
    IF t = m_last THEN t
    ELSE IF k = 0 \/ t = nullptr THEN Fault
    ELSE IF m_next[t] = nullptr THEN Fault
    ELSE IF m_next[t] # m_last /\ m_data[m_next[t]] # item
         THEN ScanShort(m_next[t], item, k - 1)
    ELSE t

\* for (; t != m_last && t->next()->get() != item; t = t->next());
\* The result is the node before the first match, or m_last without one.
RECURSIVE Scan(_, _, _)
Scan(t, item, k) ==
    IF t = m_last THEN t
    ELSE IF k = 0 \/ t = nullptr THEN Fault
    ELSE IF m_next[t] = nullptr THEN Fault
    ELSE IF m_data[m_next[t]] # item THEN Scan(m_next[t], item, k - 1)
    ELSE t

\* ---- find ---------------------------------------------------------------
\* Bug variant: returns t, the predecessor, in place of t->next().
FindResultPrev(item) ==
    LET t == Scan(m_first, item, Fuel)
    IN  IF t = m_last THEN nullptr ELSE t

FindResult(item) ==
    LET t == Scan(m_first, item, Fuel)
    IN  IF t = m_last THEN nullptr ELSE m_next[t]

find(item) ==
    /\ run' = NoRun
    /\ IF empty
       THEN /\ Called("find", item, 0, EmptyContainer, nullptr)
            /\ UNCHANGED <<m_first, m_last, m_size, m_data, m_next, heap, held>>
       ELSE IF Scan(m_first, item, Fuel) = Fault
       THEN /\ Called("find", item, 0, InvalidNodeAccess, nullptr)
            /\ UNCHANGED <<m_first, m_last, m_size, m_data, m_next, heap, held>>
       ELSE /\ Called("find", item, 0, NoError, FindResult(item))
            /\ Store(m_data, m_next, m_last, m_size, FindResult(item))

\* The caller lets go of the pointer find() gave it.
release ==
    /\ held # nullptr
    /\ run' = NoRun
    /\ Called("release", 0, 0, NoError, nullptr)
    /\ Store(m_data, m_next, m_last, m_size, nullptr)

\* ---- push_back ----------------------------------------------------------
\* Bug variant: the branch for the empty list is taken on every call.
PushBackLinksAlwaysFirst(n) ==
    [[m_next EXCEPT ![m_first] = n] EXCEPT ![n] = nullptr]

\* The links after the new node n went in.
PushBackLinks(n) ==
    IF empty
    THEN [[m_next EXCEPT ![m_first] = n] EXCEPT ![n] = nullptr]
    ELSE [[m_next EXCEPT ![m_last] = n] EXCEPT ![n] = nullptr]

push_back(item) ==
    \E n \in Fresh :
        LET d == [m_data EXCEPT ![n] = item]
            nx == PushBackLinks(n)
        IN  /\ Store(d, nx, n, m_size + 1, held)
            /\ Called("push_back", item, 0, NoError, nullptr)
            /\ run' = Extend("push_back", item)

\* ---- push_front ---------------------------------------------------------
\* Bug variant: the two assignments are swapped, m_first->next() = tmp
\* comes first and tmp->next() = m_first->next() makes tmp its own successor.
PushFrontLinksSwapped(n) ==
    IF empty
    THEN [[m_next EXCEPT ![m_first] = n] EXCEPT ![n] = nullptr]
    ELSE [[[m_next EXCEPT ![m_first] = n]
                   EXCEPT ![n] = n]
                   EXCEPT ![m_last] = nullptr]

\* Bug variant: tmp->next() = m_first->next() is missing.
PushFrontLinksDropRest(n) ==
    IF empty
    THEN [[m_next EXCEPT ![m_first] = n] EXCEPT ![n] = nullptr]
    ELSE [[[m_next EXCEPT ![n] = nullptr]
                   EXCEPT ![m_first] = n]
                   EXCEPT ![m_last] = nullptr]

\* The links after the new node n went in.
PushFrontLinks(n) ==
    IF empty
    THEN [[m_next EXCEPT ![m_first] = n] EXCEPT ![n] = nullptr]
    ELSE [[[m_next EXCEPT ![n] = m_next[m_first]]
                   EXCEPT ![m_first] = n]
                   EXCEPT ![m_last] = nullptr]

push_front(item) ==
    \E n \in Fresh :
        LET d == [m_data EXCEPT ![n] = item]
            nx == PushFrontLinks(n)
            la == IF empty THEN n ELSE m_last
        IN  /\ Store(d, nx, la, m_size + 1, held)
            /\ Called("push_front", item, 0, NoError, nullptr)
            /\ run' = Extend("push_front", item)

\* ---- erase --------------------------------------------------------------
\* Bug variant: t->next() = nullptr, the successor is not relinked.
EraseLinksCut(t) ==
    [m_next EXCEPT ![t] = nullptr]

\* to_be_removed = t->next(); t->next() = t->next()->next();
EraseLinks(t) ==
    [m_next EXCEPT ![t] = m_next[m_next[t]]]

\* Bug variant: the test  if (t->next() == nullptr) m_last = t  is missing.
EraseLastStale(t, nx) ==
    IF m_first = m_last THEN nullptr ELSE m_last

\* Bug variant: m_last = t is done without the test of t->next().
EraseLastAlways(t, nx) ==
    IF m_first = t THEN nullptr ELSE t

\* Bug variant: the test  if (m_first == m_last) m_last = nullptr  is missing.
EraseLastNoReset(t, nx) ==
    IF nx[t] = nullptr THEN t ELSE m_last

\* m_last after the two trailing tests of erase, t being the predecessor.
EraseLast(t, nx) ==
    LET la == IF nx[t] = nullptr THEN t ELSE m_last
    IN  IF m_first = la THEN nullptr ELSE la

\* An erase(item) that directly follows a push of the same item is kept
\* together with the list as it was before that push.
Undo(item) ==
    IF call.op \in {"push_front", "push_back"} /\ call.x = item
    THEN [op |-> "undo", base |-> pre.trav, baseSize |-> pre.size,
          args |-> <<item>>, push |-> call.op, nodes |-> pre.nodes,
          last |-> pre.last]
    ELSE NoRun

erase(item) ==
    /\ run' = Undo(item)
    /\ IF empty
       THEN /\ Called("erase", item, 0, EmptyContainer, nullptr)
            /\ UNCHANGED <<m_first, m_last, m_size, m_data, m_next, heap, held>>
       ELSE LET t == Scan(m_first, item, Fuel)
            IN  IF t = Fault
                THEN /\ Called("erase", item, 0, InvalidNodeAccess, nullptr)
                     /\ UNCHANGED <<m_first, m_last, m_size, m_data, m_next, heap, held>>
                ELSE IF t = m_last
                THEN /\ Called("erase", item, 0, ValueNotFound, nullptr)
                     /\ UNCHANGED <<m_first, m_last, m_size, m_data, m_next, heap, held>>
                ELSE LET nx == EraseLinks(t)
                     IN  /\ Called("erase", item, 0, NoError, nullptr)
                         /\ Store(m_data, nx, EraseLast(t, nx), m_size - 1, held)

\* ---- insert_after -------------------------------------------------------
\* Bug variant: new_node->next() = tmp is missing.
InsertLinksDropRest(prev, n) ==
    IF prev = m_last
    THEN [[m_next EXCEPT ![m_last] = n] EXCEPT ![n] = nullptr]
    ELSE [[m_next EXCEPT ![prev] = n] EXCEPT ![n] = nullptr]

\* Bug variant: the last node is recognised by its value, not its address.
InsertLastByValue(prev, n) ==
    IF m_data[prev] = m_data[m_last] THEN n ELSE m_last

\* Bug variant: m_last = m_last->next() is missing.
InsertLastKeep(prev, n) == m_last

\* m_last after new_node n went in behind the node prev.
InsertLast(prev, n) == IF prev = m_last THEN n ELSE m_last

\* The links after new_node n went in behind the node prev.
InsertLinks(prev, n) ==
    IF prev = m_last
    THEN [[m_next EXCEPT ![m_last] = n] EXCEPT ![n] = nullptr]
    ELSE [[m_next EXCEPT ![prev] = n] EXCEPT ![n] = m_next[prev]]

insert_after(pos, item) ==
    IF empty
    THEN /\ Called("insert_after", pos, item, EmptyContainer, nullptr)
         /\ run' = NoRun
         /\ UNCHANGED <<m_first, m_last, m_size, m_data, m_next, heap, held>>
    ELSE LET t == Scan(m_first, pos, Fuel)
         IN  IF t = Fault
             THEN /\ Called("insert_after", pos, item, InvalidNodeAccess, nullptr)
                  /\ run' = NoRun
                  /\ UNCHANGED <<m_first, m_last, m_size, m_data, m_next, heap, held>>
             ELSE IF t = m_last
             THEN /\ Called("insert_after", pos, item, ValueNotFound, nullptr)
                  /\ run' = NoRun
                  /\ UNCHANGED <<m_first, m_last, m_size, m_data, m_next, heap, held>>
             ELSE \E n \in Fresh :
                      LET prev == m_next[t]
                          d == [m_data EXCEPT ![n] = item]
                          la == InsertLast(prev, n)
                      IN  /\ Called("insert_after", pos, item, NoError, nullptr)
                          /\ run' = NoRun
                          /\ Store(d, InsertLinks(prev, n), la, m_size + 1, held)

\* ---- clear --------------------------------------------------------------
\* while (m_first->next() != nullptr) m_first->next() = m_first->next()->next();
\* Bug variant: "if" in place of "while", one node is unlinked.
ClearLoopOnce(nx, k) ==
    IF nx[m_first] = nullptr \/ k = 0 THEN nx
    ELSE [nx EXCEPT ![m_first] = nx[nx[m_first]]]

RECURSIVE ClearLoop(_, _)
ClearLoop(nx, k) ==
    IF nx[m_first] = nullptr \/ k = 0 THEN nx
    ELSE ClearLoop([nx EXCEPT ![m_first] = nx[nx[m_first]]], k - 1)

\* The run of consecutive clear() calls: base is the list before the first
\* of them, args is <<>> after one call and <<"again">> after more.
ClearRun ==
    IF run.op = "clear"
    THEN [run EXCEPT !.args = <<"again">>]
    ELSE [op |-> "clear", base |-> Traversal, baseSize |-> m_size, args |-> <<>>]

\* Bug variant: clear() starts over with a new first node.
clearNewFirst ==
    \E n \in Fresh :
        LET keep == Owned({n, held} \ {nullptr}, m_next)
        IN  /\ run' = ClearRun
            /\ Called("clear", 0, 0, NoError, nullptr)
            /\ m_first' = n
            /\ m_last' = nullptr
            /\ m_size' = 0
            /\ held' = held
            /\ heap' = keep
            /\ m_data' = [a \in Addr |-> IF a \in keep THEN m_data[a] ELSE Uninit]
            /\ m_next' = [a \in Addr |-> IF a \in keep THEN m_next[a] ELSE nullptr]

\* Bug variant: m_last.reset() is missing.
clearKeepLast ==
    /\ run' = ClearRun
    /\ Called("clear", 0, 0, NoError, nullptr)
    /\ Store(m_data, ClearLoop(m_next, Fuel), m_last, 0, held)

clear ==
    /\ run' = ClearRun
    /\ Called("clear", 0, 0, NoError, nullptr)
    /\ Store(m_data, ClearLoop(m_next, Fuel), nullptr, 0, held)

\* ---- front, back --------------------------------------------------------
\* Bug variant: the test of empty() is missing.
frontUnchecked ==
    /\ run' = NoRun
    /\ UNCHANGED <<m_first, m_last, m_size, m_data, m_next, heap, held>>
    /\ IF m_next[m_first] = nullptr
       THEN Called("front", 0, 0, InvalidNodeAccess, nullptr)
       ELSE Called("front", 0, 0, NoError, m_data[m_next[m_first]])

front ==
    /\ run' = NoRun
    /\ UNCHANGED <<m_first, m_last, m_size, m_data, m_next, heap, held>>
    /\ IF empty
       THEN Called("front", 0, 0, EmptyContainer, nullptr)
       ELSE IF m_next[m_first] = nullptr
       THEN Called("front", 0, 0, InvalidNodeAccess, nullptr)
       ELSE Called("front", 0, 0, NoError, m_data[m_next[m_first]])

back ==
    /\ run' = NoRun
    /\ UNCHANGED <<m_first, m_last, m_size, m_data, m_next, heap, held>>
    /\ IF empty
       THEN Called("back", 0, 0, EmptyContainer, nullptr)
       ELSE Called("back", 0, 0, NoError, m_data[m_last])

\* ---- iterators ----------------------------------------------------------
\* The caller's iterator is its shared_ptr m_ptr, kept in held.
\* auto i = l.begin();
begin_iter ==
    /\ Called("begin", 0, 0, NoError, begin)
    /\ run' = [op |-> "iter", base |-> Traversal, baseSize |-> m_size, args |-> <<>>]
    /\ Store(m_data, m_next, m_last, m_size, begin)

\* l.end(): iterator it { m_last->next() }
end_iter ==
    /\ UNCHANGED <<m_first, m_last, m_size, m_data, m_next, heap, held, run>>
    /\ IF m_last = nullptr
       THEN \E o \in NullCallOutcomes : Called("end", 0, 0, o, nullptr)
       ELSE Called("end", 0, 0, NoError, m_next[m_last])

\* Bug variant: the result of m_ptr->next() is not assigned to m_ptr.
incrementNoAssign ==
    IF held = nullptr
    THEN /\ \E o \in NullCallOutcomes : Called("operator++", held, 0, o, nullptr)
         /\ run' = NoRun
         /\ UNCHANGED <<m_first, m_last, m_size, m_data, m_next, heap, held>>
    ELSE /\ Called("operator++", held, 0, NoError, m_next[held])
         /\ run' = IF run.op = "iter" THEN [run EXCEPT !.args = Append(@, held)]
                   ELSE NoRun
         /\ Store(m_data, m_next, m_last, m_size, held)

\* ++i: m_ptr = m_ptr->next().  call.x is m_ptr before the call.
increment ==
    IF held = nullptr
    THEN /\ \E o \in NullCallOutcomes : Called("operator++", held, 0, o, nullptr)
         /\ run' = NoRun
         /\ UNCHANGED <<m_first, m_last, m_size, m_data, m_next, heap, held>>
    ELSE /\ Called("operator++", held, 0, NoError, m_next[held])
         /\ run' = IF run.op = "iter" THEN [run EXCEPT !.args = Append(@, held)]
                   ELSE NoRun
         /\ Store(m_data, m_next, m_last, m_size, m_next[held])

\* *i: m_ptr->get().  call.x is m_ptr.
dereference ==
    /\ UNCHANGED <<m_first, m_last, m_size, m_data, m_next, heap, held, run>>
    /\ IF held = nullptr
       THEN \E o \in NullCallOutcomes : Called("operator*", held, 0, o, nullptr)
       ELSE Called("operator*", held, 0, NoError, m_data[held])

Next ==
    \/ \E v \in Values : find(v)
    \/ release
    \/ \E v \in Values : push_back(v)
    \/ \E v \in Values : push_front(v)
    \/ \E v \in Values : erase(v)
    \/ \E p, v \in Values : insert_after(p, v)
    \/ clear
    \/ front
    \/ back

Spec == Init /\ [][Next]_vars

\* The caller builds and empties lists and walks them with an iterator.
NextIter ==
    \/ \E v \in Values : push_back(v)
    \/ \E v \in Values : push_front(v)
    \/ \E v \in Values : erase(v)
    \/ clear
    \/ release
    \/ begin_iter
    \/ end_iter
    \/ increment
    \/ dereference

SpecIter == Init /\ [][NextIter]_vars

\* ==== properties =========================================================
Elems(s) == {s[i] : i \in 1 .. Len(s)}

\* Index of the first occurrence of x in s (x occurs in s).
FirstIndex(s, x) == CHOOSE i \in 1 .. Len(s) : s[i] = x /\ \A j \in 1 .. i - 1 : s[j] # x

RemoveAt(s, i) == SubSeq(s, 1, i - 1) \o SubSeq(s, i + 1, Len(s))

\* s with e put right behind position i.
InsertBehind(s, i, e) == SubSeq(s, 1, i) \o <<e>> \o SubSeq(s, i + 1, Len(s))

Reverse(s) == [i \in 1 .. Len(s) |-> s[Len(s) + 1 - i]]

\* The walk from the first node ended at nullptr, not at the step limit.
ChainEnds ==
    LET c == ChainNodes
    IN  c = <<>> \/ m_next[c[Len(c)]] = nullptr

\* The last call left the chain, the counter and the last-pointer alone.
ListUnchanged ==
    /\ m_size = pre.size
    /\ m_last = pre.last
    /\ ChainNodes = pre.nodes
    /\ Traversal = pre.trav

\* C1: in every reachable state, also after a call that raised, size() is
\* the number of nodes met by following next-links from the first node's
\* next-link until nullptr.
C1_SizeCountsChain ==
    /\ ChainEnds
    /\ size = Len(ChainNodes)

\* C1 witness: a list of two elements on which erase has just raised.
C1_Witness ==
    /\ call.op = "erase" /\ call.raised = ValueNotFound
    /\ Len(ChainNodes) = 2

\* C2: m_last is nullptr exactly when size() is 0, so empty() is true
\* exactly when size() is 0, and a new list has size() 0 and empty() true.
C2_TailNoneIffSizeZero ==
    /\ (m_last = nullptr) <=> (m_size = 0)
    /\ empty <=> (size = 0)
    /\ call.op = "s_list" => (size = 0 /\ empty)

\* C2 witness: erase has just removed the only element.
C2_Witness ==
    /\ call.op = "erase" /\ call.raised = NoError
    /\ pre.size = 1 /\ empty

\* C3: in a non-empty list m_last is the chain node whose next-link is
\* nullptr; back() is the last element of the traversal and front() the
\* first.
C3_TailIsLastNode ==
    /\ ~empty =>
          /\ ChainNodes # <<>>
          /\ ChainEnds
          /\ m_last = ChainNodes[Len(ChainNodes)]
          /\ m_next[m_last] = nullptr
    /\ (call.op = "back" /\ pre.trav # <<>>) =>
          /\ call.raised = NoError
          /\ call.ret = Traversal[Len(Traversal)]
    /\ (call.op = "front" /\ pre.trav # <<>>) =>
          /\ call.raised = NoError
          /\ call.ret = Traversal[1]

\* C3 witness: back() on a list whose last element differs from its first.
C3_Witness ==
    /\ call.op = "back" /\ call.raised = NoError
    /\ Len(Traversal) >= 2
    /\ call.ret # Traversal[1]

\* C4: push_back(v1), ..., push_back(vn) leave the elements that were there
\* followed by v1, ..., vn, and size() larger by n.
C4_PushBackOrder ==
    run.op = "push_back" =>
        /\ Traversal = run.base \o run.args
        /\ size = run.baseSize + Len(run.args)
        /\ ChainEnds

\* C4 witness: two different values pushed back onto a non-empty list.
C4_Witness ==
    /\ run.op = "push_back"
    /\ run.base # <<>>
    /\ Len(run.args) >= 2
    /\ run.args[1] # run.args[2]

\* C5: push_front(v1), ..., push_front(vn) leave vn, ..., v1 followed by the
\* elements that were there, and size() larger by n.
C5_PushFrontOrder ==
    run.op = "push_front" =>
        /\ Traversal = Reverse(run.args) \o run.base
        /\ size = run.baseSize + Len(run.args)
        /\ ChainEnds

\* C5 witness: two different values pushed in front of a non-empty list.
C5_Witness ==
    /\ run.op = "push_front"
    /\ run.base # <<>>
    /\ Len(run.args) >= 2
    /\ run.args[1] # run.args[2]

\* C6: on a non-empty list find(x) returns the first node of the traversal
\* holding x when x is present, nullptr without raising when x is absent,
\* and leaves the list as it was.
C6_FindFirstMatch ==
    (call.op = "find" /\ pre.trav # <<>>) =>
        /\ call.raised = NoError
        /\ call.x \in Elems(pre.trav) =>
              call.ret = pre.nodes[FirstIndex(pre.trav, call.x)]
        /\ call.x \notin Elems(pre.trav) => call.ret = nullptr
        /\ ListUnchanged

\* C6 witness: find of a value that occurs twice, the first time not at the
\* head of the list.
C6_Witness ==
    /\ call.op = "find" /\ call.raised = NoError
    /\ Len(pre.trav) = 3
    /\ pre.trav[1] # call.x
    /\ pre.trav[2] = call.x /\ pre.trav[3] = call.x
    /\ call.ret = pre.nodes[2]

\* C7: erase(x) on a list holding x removes the first node holding x and no
\* other: size() is smaller by 1 and the other elements keep their order.
C7_EraseFirstOccurrence ==
    (call.op = "erase" /\ call.x \in Elems(pre.trav)) =>
        /\ call.raised = NoError
        /\ size = pre.size - 1
        /\ Traversal = RemoveAt(pre.trav, FirstIndex(pre.trav, call.x))
        /\ ChainNodes = RemoveAt(pre.nodes, FirstIndex(pre.trav, call.x))

\* C7 witness: erase of a value that occurred twice, behind another one.
C7_Witness ==
    /\ call.op = "erase" /\ call.raised = NoError
    /\ Len(pre.trav) = 3
    /\ pre.trav[1] # call.x
    /\ pre.trav[2] = call.x /\ pre.trav[3] = call.x
    /\ Len(Traversal) = 2

\* C8: insert_after(pos, v) on a list holding pos puts one new node holding
\* v right behind the first node holding pos; size() is larger by 1 and the
\* other elements keep their order.
C8_InsertAfterFirstOccurrence ==
    (call.op = "insert_after" /\ call.x \in Elems(pre.trav)) =>
        LET i == FirstIndex(pre.trav, call.x)
        IN  /\ call.raised = NoError
            /\ size = pre.size + 1
            /\ Len(ChainNodes) = Len(pre.nodes) + 1
            /\ Traversal = InsertBehind(pre.trav, i, call.y)
            /\ ChainNodes = InsertBehind(pre.nodes, i, ChainNodes[i + 1])
            /\ ChainNodes[i + 1] \notin Elems(pre.nodes)

\* C8 witness: pos occurs twice and the new value is another one, so that
\* the place of the new node shows in the traversal.
C8_Witness ==
    /\ call.op = "insert_after" /\ call.raised = NoError
    /\ pre.trav = <<call.x, call.x>>
    /\ call.y # call.x
    /\ Traversal = <<call.x, call.y, call.x>>

\* C9: on a list without elements front, back, find, erase and insert_after
\* raise EmptyContainer, and the list is empty afterwards.
C9_EmptyListRaises ==
    (call.op \in {"front", "back", "find", "erase", "insert_after"} /\ pre.size = 0) =>
        /\ call.raised = EmptyContainer
        /\ size = 0
        /\ m_last = nullptr
        /\ m_next[m_first] = nullptr

\* C9 witness: insert_after raised on a list that had an element before
\* (the caller still holds the node find() returned then).
C9_Witness ==
    /\ call.op = "insert_after" /\ call.raised = EmptyContainer
    /\ held # nullptr
    /\ size = 0

\* C10: on a non-empty list without x, erase(x) and insert_after(x, v) raise
\* ValueNotFound and leave the list unchanged; ValueNotFound is not raised
\* on an empty list.
C10_NotFoundRaises ==
    /\ (call.op \in {"erase", "insert_after"} /\ pre.trav # <<>>
           /\ call.x \notin Elems(pre.trav)) =>
          /\ call.raised = ValueNotFound
          /\ ExceptionType(call.raised) = "std::invalid_argument"
          /\ ListUnchanged
    /\ call.raised = ValueNotFound => (pre.size # 0 /\ pre.trav # <<>>)

\* C10 witness: insert_after of an absent pos on a list of two elements.
C10_Witness ==
    /\ call.op = "insert_after" /\ call.raised = ValueNotFound
    /\ Len(pre.trav) = 2
    /\ Len(Traversal) = 2

\* The list fields of a list without elements.
EmptyList ==
    /\ size = 0
    /\ empty
    /\ m_last = nullptr
    /\ m_next[m_first] = nullptr

\* C11: clear() on any list leaves size() 0, empty() true, m_last nullptr
\* and the first node's next-link nullptr; a second clear() right after
\* the first leaves what the first left.
C11_ClearEmptiesAndIsIdempotent ==
    /\ call.op = "clear" => (call.raised = NoError /\ EmptyList)
    /\ (run.op = "clear" /\ run.args # <<>>) =>
          /\ EmptyList
          /\ ListUnchanged
          /\ pre.trav = <<>> /\ pre.size = 0 /\ pre.last = nullptr

\* C11 witness: clear() called twice in a row on a list of two elements.
C11_Witness ==
    /\ run.op = "clear" /\ run.args # <<>>
    /\ Len(run.base) >= 2

\* C12: in every reachable state, the empty list included, end() returns
\* the end position nullptr without raising, and begin() == end() exactly
\* when the list is empty.
C12_EndNeverRaises ==
    call.op = "end" =>
        /\ call.raised = NoError
        /\ call.ret = nullptr
        /\ (begin = call.ret) <=> (size = 0)

\* C13: on a non-empty list that is not changed meanwhile, an iterator from
\* begin() advanced k times has passed the first k chain nodes in order and
\* stands on the next one; it equals end() after exactly size() advances.
C13_IterationVisitsChain ==
    (run.op = "iter" /\ run.base # <<>>) =>
        LET k == Len(run.args)
        IN  /\ Traversal = run.base
            /\ size = run.baseSize
            /\ k <= size
            /\ run.args = SubSeq(ChainNodes, 1, k)
            /\ held = (IF k = size THEN nullptr ELSE ChainNodes[k + 1])
            /\ k > 0 => held = m_next[run.args[k]]
            /\ (held = m_next[m_last]) <=> (k = size)
            /\ call.op = "end" => (call.raised = NoError /\ call.ret = m_next[m_last])

\* C13 witness: after three advances over three elements the iterator is
\* compared with end() and equals it.
C13_Witness ==
    /\ run.op = "iter"
    /\ Len(run.base) = 3
    /\ Len(run.args) = 3
    /\ call.op = "end" /\ call.ret = held

\* C14: operator* and operator++ on an iterator at the end (m_ptr is
\* nullptr) fail with InvalidNodeAccess and leave the list as it was.
C14_NullAccessRaises ==
    (call.op \in {"operator*", "operator++"} /\ call.x = nullptr) =>
        /\ call.raised = InvalidNodeAccess
        /\ ListUnchanged

\* C15: every call leaves the first node the node it was: it is not
\* replaced, it stays allocated and no traversal from begin() meets it;
\* clear() leaves the fields a new list has, and a push onto a list
\* without elements, new or cleared, gives the one-element list.
C15_SentinelKept ==
    /\ m_first = pre.first
    /\ m_first \in heap
    /\ m_first \notin Elems(ChainNodes)
    /\ m_data[m_first] = Uninit
    /\ call.op = "clear" => (EmptyList /\ ChainNodes = <<>>)
    /\ (call.op \in {"push_back", "push_front"} /\ pre.size = 0) =>
          /\ call.raised = NoError
          /\ Traversal = <<call.x>>
          /\ size = 1
          /\ m_last = begin
          /\ m_next[m_last] = nullptr

\* C15 witness: a push onto a list that had elements and lost them all
\* (the caller still holds a node of that time), with the first node kept.
C15_Witness ==
    /\ call.op = "push_back" /\ pre.size = 0
    /\ held # nullptr
    /\ m_first = pre.first
    /\ Traversal = <<call.x>>

\* C16: the chain from the first node is acyclic and finite: following
\* next-links from the first node meets no node twice and reaches nullptr.
C16_ChainAcyclic ==
    LET w == <<m_first>> \o ChainNodes
    IN  /\ ChainEnds
        /\ \A i, j \in 1 .. Len(w) : i # j => w[i] # w[j]
        /\ Len(w) <= Cardinality(heap)

\* C16 witness: insert_after has put a third node between two others.
C16_Witness ==
    /\ call.op = "insert_after" /\ call.raised = NoError
    /\ Len(ChainNodes) = 3
    /\ m_last = pre.last

\* The nodes the last call took out of the chain.
Removed == Elems(pre.nodes) \ Elems(ChainNodes)

\* C17: while the caller holds no iterator and no find() result, after a
\* completed erase or clear the nodes that exist are the first node and the
\* size() chain nodes, and neither m_last nor a next-link of a chain node
\* refers to a removed node.
C17_RemovedNodesReclaimed ==
    (held = nullptr /\ call.op \in {"erase", "clear"} /\ call.raised = NoError) =>
        /\ heap = {m_first} \cup Elems(ChainNodes)
        /\ Cardinality(heap) = size + 1
        /\ Removed \cap heap = {}
        /\ m_last \notin Removed
        /\ \A n \in heap : m_next[n] \notin Removed

\* C17 witness: erase has removed the last of three nodes and nothing is
\* held.
C17_Witness ==
    /\ call.op = "erase" /\ call.raised = NoError
    /\ held = nullptr
    /\ pre.size = 3
    /\ pre.last \in Removed

\* C18: erase(x) changes m_last exactly when the removed node, the first
\* one holding x, was the last node; m_last is then its predecessor, or
\* nullptr when the predecessor is the first node of the list object.
C18_EraseTail ==
    (call.op = "erase" /\ call.raised = NoError) =>
        LET i == FirstIndex(pre.trav, call.x)
            n == Len(pre.nodes)
        IN  /\ call.x \in Elems(pre.trav)
            /\ (m_last # pre.last) <=> (i = n)
            /\ i = n => m_last = (IF i = 1 THEN nullptr ELSE pre.nodes[i - 1])
            /\ i # n => m_last = pre.last

\* C18 witness: the last of three nodes is erased, the second becomes last.
C18_Witness ==
    /\ call.op = "erase" /\ call.raised = NoError
    /\ Len(pre.nodes) = 3
    /\ FirstIndex(pre.trav, call.x) = 3
    /\ m_last = pre.nodes[2]

\* C19: insert_after(pos, v) makes the new node the last node exactly when
\* the first node holding pos is the last node; when only an earlier node
\* and the last node hold pos, m_last stays.  push_front on a non-empty
\* list leaves m_last as it was.
C19_InsertTail ==
    /\ (call.op = "insert_after" /\ call.raised = NoError) =>
          LET i == FirstIndex(pre.trav, call.x)
              n == Len(pre.nodes)
          IN  /\ call.x \in Elems(pre.trav)
              /\ (m_last = ChainNodes[i + 1]) <=> (i = n)
              /\ i < n => m_last = pre.last
              /\ i = n => m_last \notin Elems(pre.nodes)
    /\ (call.op = "push_front" /\ pre.size > 0) => m_last = pre.last

\* C19 witness: pos is held by both nodes of the list; the new node goes
\* behind the first of them and the last node stays last.
C19_Witness ==
    /\ call.op = "insert_after" /\ call.raised = NoError
    /\ pre.trav = <<call.x, call.x>>
    /\ call.y # call.x
    /\ m_last = pre.last
    /\ ChainNodes[3] = m_last

\* C20: push_front(x) directly followed by erase(x) gives back the list as
\* it was: same traversal, same nodes, same size() and same m_last;
\* push_back(x) directly followed by erase(x) does so when the list did
\* not hold x.
C20_PushThenEraseRestores ==
    (run.op = "undo" /\ (run.push = "push_front" \/ run.args[1] \notin Elems(run.base))) =>
        /\ call.op = "erase" /\ call.raised = NoError
        /\ Traversal = run.base
        /\ ChainNodes = run.nodes
        /\ size = run.baseSize
        /\ m_last = run.last

\* C20 witness: push_front(x), erase(x) on a list of two elements that
\* holds x already.
C20_Witness ==
    /\ run.op = "undo" /\ run.push = "push_front"
    /\ Len(run.base) = 2
    /\ run.args[1] \in Elems(run.base)

====
